---- MODULE Spec2Model ----
(***************************************************************************)
(* Courier management back end: the two express route modules              *)
(* server/routes/couriers.js and server/routes/reports.js, together with   *)
(* the tables and stored routines of the MySQL database they talk to.      *)
(*                                                                         *)
(* A handler runs synchronously up to its first `await pool.query`; the    *)
(* database executes one statement atomically; the handler resumes with    *)
(* the result.  A handler with one query is therefore one action.  The     *)
(* handlers with two queries (DELETE /:id and GET /:id/logs) are two       *)
(* actions each, and other requests may run between them.                  *)
(*                                                                         *)
(* NOW() is a logical clock: it advances with every write, so that two     *)
(* rows never carry the same timestamp.                                    *)
(*                                                                         *)
(* JavaScript values of request bodies are encoded as integers: the        *)
(* positive integers are non-empty strings / non-zero numbers (tokens),    *)
(* 0 is the number 0, EmptyString is '' and Undefined is an absent field.  *)
(***************************************************************************)
EXTENDS Integers, Sequences, FiniteSets, Bags, TLC

\* ------------------------------------------------------------------ bounds
MaxCouriers == 2     \* AUTO_INCREMENT values handed out for Couriers
MaxHistory == 1      \* AUTO_INCREMENT values handed out for the two log tables
MaxInFlight == 2     \* two-query requests that can be in flight together
MaxRequests == 3     \* requests received
MaxApplied == 1      \* requests received when every input is tried
NumUsers == 2
NumAdmins == 1
NumBills == 1

\* ------------------------------------------------------- JavaScript values
Undefined == -2
EmptyString == -1
Null == -3

\* the values of a required body field that are absent or empty, and those
\* that JavaScript takes for false
MissingOrEmpty == {Undefined, EmptyString}
Falsy == {Undefined, EmptyString, 0}

\* JavaScript `!v`: true for undefined, null, '', 0
\* (NotPresent is the faulty variant that lets the number 0 through)
NotPresent(v) == v \in MissingOrEmpty
Not(v) == v <= 0

\* ----------------------------------------------------------------- status
Pending == 1
InTransit == 2
Delivered == 3
Statuses == {Pending, InTransit, Delivered}

DbErrors == {"ECONNREFUSED", "ER_SIGNAL_EXCEPTION"}
Outcomes == {"ok"} \cup DbErrors

UserIds == 1..NumUsers
AdminIds == 1..NumAdmins
PathIds == 1..MaxCouriers

VARIABLES
  Users,             \* table Users (never written by a handler)
  Admins,            \* table Admins (never written by a handler)
  Couriers,          \* table Couriers
  Delivery_History,  \* table Delivery_History
  Courier_Audit,     \* table Courier_Audit
  nextCourierId,     \* AUTO_INCREMENT of Couriers
  nextHistoryId,     \* AUTO_INCREMENT of Delivery_History and Courier_Audit
  clock,             \* NOW()
  inflight,          \* bag of the two-query requests between their queries
  last,              \* the request answered most recently, with its answer
  before,            \* the tables just before the step that answered it
  okDeletes,         \* per id: delete requests answered with success
  received           \* number of requests received

tables == <<Users, Admins, Couriers, Delivery_History, Courier_Audit,
            nextCourierId, nextHistoryId>>
logTables == <<Delivery_History, Courier_Audit, nextHistoryId>>
vars == <<Users, Admins, Couriers, Delivery_History, Courier_Audit,
          nextCourierId, nextHistoryId, clock, inflight, last, before,
          okDeletes, received>>

\* --------------------------------------------------------------- helpers
\* all enumerations of the finite set S
RECURSIVE Perms(_)
Perms(S) ==
  IF S = {} THEN {<< >>}
  ELSE UNION {{<<x>> \o p : p \in Perms(S \ {x})} : x \in S}

\* ORDER BY column DESC: the orders a result set may come back in
OrderByDesc(S, column) ==
  {s \in Perms(S) : \A i, j \in 1..Len(s) : i < j => s[i][column] >= s[j][column]}

\* ORDER BY column (ascending)
OrderByAsc(S, column) ==
  {s \in Perms(S) : \A i, j \in 1..Len(s) : i < j => s[i][column] <= s[j][column]}

\* rows of the lookup tables
UserRow(u) == [user_id |-> u, name |-> NumUsers + 1 - u, email |-> u, phone |-> u]
AdminRow(a) == [admin_id |-> a, name |-> a, email |-> a]

\* LEFT JOIN on a key: the column of the matching row, or NULL
CustomerName(cid) ==
  IF \E u \in Users : u.user_id = cid
  THEN (CHOOSE u \in Users : u.user_id = cid).name ELSE Null
CustomerEmail(cid) ==
  IF \E u \in Users : u.user_id = cid
  THEN (CHOOSE u \in Users : u.user_id = cid).email ELSE Null
AdminName(aid) ==
  IF \E a \in Admins : a.admin_id = aid
  THEN (CHOOSE a \in Admins : a.admin_id = aid).name ELSE Null
AdminEmail(aid) ==
  IF \E a \in Admins : a.admin_id = aid
  THEN (CHOOSE a \in Admins : a.admin_id = aid).email ELSE Null

\* ------------------------------------------------------------- responses
NoRequest == [route |-> "none", status |-> 0, calls |-> << >>]

Snapshot ==
  [Couriers |-> Couriers, Delivery_History |-> Delivery_History,
   Courier_Audit |-> Courier_Audit]

\* res.status(code).json(json) of the request req, after the queries calls
Respond(req, calls, code, json) ==
  /\ last' = [route |-> req.route, req |-> req, calls |-> calls,
              status |-> code, json |-> json]
  /\ before' = Snapshot

\* one pool.query: the statement, its parameters, "ok" or the error thrown, its rows
Call(sql, args, out, rows) ==
  [sql |-> sql, args |-> args, result |-> out, rows |-> rows]

\* catch (error): status 500 with error.message, after the failed query
\* (CatchMasked is the faulty variant that hides the message)
CatchMasked(req, calls, message, error) ==
  Respond(req, calls, 500,
          [success |-> FALSE, message |-> message, error |-> "Internal Server Error"])
Catch(req, calls, message, error) ==
  Respond(req, calls, 500, [success |-> FALSE, message |-> message, error |-> error])

\* the catch blocks that send no message field
CatchBare(req, calls, error) ==
  Respond(req, calls, 500, [success |-> FALSE, error |-> error])

\* a handler whose statement is a SELECT writes no table
\* (ReadOnlyPurging is the faulty variant that empties Delivery_History)
ReadOnlyPurging ==
  /\ Delivery_History' = {}
  /\ UNCHANGED <<Users, Admins, Couriers, Courier_Audit, nextCourierId,
                 nextHistoryId, clock>>
ReadOnly == UNCHANGED <<tables, clock>>

Init ==
  /\ Users = {UserRow(u) : u \in UserIds}
  /\ Admins = {AdminRow(a) : a \in AdminIds}
  /\ Couriers = {}
  /\ Delivery_History = {}
  /\ Courier_Audit = {}
  /\ nextCourierId = 1
  /\ nextHistoryId = 1
  /\ clock = 0
  /\ inflight = EmptyBag
  /\ last = NoRequest
  /\ before = Snapshot
  /\ okDeletes = [i \in PathIds |-> 0]
  /\ received = 0

\* a request reaches its handler
Receive ==
  /\ received < MaxRequests
  /\ received' = received + 1

\* ------------------------------------------------- stored routines (MySQL)
\* CALL AddCourierOrder(?, ?, ?, ?, ?): the row it inserts
AddCourierOrder(customer_id, admin_id, bill_number, pickup_address, delivery_address) ==
  [courier_id |-> nextCourierId, customer_id |-> customer_id,
   managed_by_admin_id |-> admin_id, bill_number |-> bill_number,
   pickup_address |-> pickup_address, delivery_address |-> delivery_address,
   status |-> Pending, created_at |-> clock]

\* CALL UpdateCourierStatus(?, ?, ?): table Couriers after the call
UpdateCourierStatus(id, new_status) ==
  {IF c.courier_id = id THEN [c EXCEPT !.status = new_status] ELSE c : c \in Couriers}

\* trigger after_courier_status_update: the rows it appends for the rows updated
HistoryRows(id, new_status, email) ==
  {[history_id |-> nextHistoryId, courier_id |-> id, old_status |-> c.status,
    new_status |-> new_status, changed_at |-> clock,
    changed_by_admin_email |-> email] : c \in {r \in Couriers : r.courier_id = id}}
AuditRows(id, new_status, email) ==
  {[audit_id |-> nextHistoryId, courier_id |-> id, action_type |-> "STATUS_UPDATE",
    old_status |-> c.status, new_status |-> new_status, changed_at |-> clock,
    admin_email |-> email] : c \in {r \in Couriers : r.courier_id = id}}

\* SELECT GetCourierStatus(?) AS status: the row sets the call can return
GetCourierStatus(id) ==
  IF \E c \in Couriers : c.courier_id = id
  THEN {<<[status |-> c.status]>> : c \in {r \in Couriers : r.courier_id = id}}
  ELSE {<< >>, <<[status |-> Null]>>}

\* ON DELETE CASCADE from Couriers to the two log tables
Cascade(T, id) == {r \in T : r.courier_id # id}

\* ------------------------------------------------------------ POST /add
\* the parameters of CALL AddCourierOrder, in the order the handler passes them
\* (AddArgsSwapped is the faulty variant with customer and bill number swapped)
AddArgsSwapped(body) ==
  <<body.bill_number, body.admin_id, body.customer_id, body.pickup_address,
    body.delivery_address>>
AddArgs(body) ==
  <<body.customer_id, body.admin_id, body.bill_number, body.pickup_address,
    body.delivery_address>>

PostAdd(body) ==
  LET req == [route |-> "POST /add", body |-> body] IN
  /\ Receive
  /\ IF Not(body.customer_id) \/ Not(body.admin_id) \/ Not(body.bill_number)
        \/ Not(body.pickup_address) \/ Not(body.delivery_address)
     THEN /\ Respond(req, << >>, 400,
                     [success |-> FALSE, message |-> "All fields are required"])
          /\ UNCHANGED <<tables, clock, inflight, okDeletes>>
     ELSE \E out \in Outcomes :
          LET sql == "CALL AddCourierOrder(?, ?, ?, ?, ?)"
              args == AddArgs(body)
              row == AddCourierOrder(args[1], args[2], args[3], args[4], args[5])
              result == <<[courier_id |-> row.courier_id]>>
          IN
          IF out = "ok"
          THEN /\ nextCourierId <= MaxCouriers
               /\ Couriers' = Couriers \cup {row}
               /\ nextCourierId' = nextCourierId + 1
               /\ clock' = clock + 1
               /\ Respond(req, <<Call(sql, args, out, result)>>, 201,
                    [success |-> TRUE,
                     message |-> "Courier order added successfully using stored procedure",
                     data |-> result[1]])
               /\ UNCHANGED <<Users, Admins, logTables, inflight, okDeletes>>
          ELSE /\ Catch(req, <<Call(sql, args, out, << >>)>>,
                        "Failed to add courier order", out)
               /\ UNCHANGED <<tables, clock, inflight, okDeletes>>

\* ------------------------------------------------ PUT /update-status/:id
PutUpdateStatus(id, body) ==
  LET req == [route |-> "PUT /update-status/:id", id |-> id, body |-> body] IN
  /\ Receive
  /\ IF Not(body.new_status) \/ Not(body.changed_by_admin_email)
     THEN /\ Respond(req, << >>, 400,
                     [success |-> FALSE, message |-> "Status and admin email are required"])
          /\ UNCHANGED <<tables, clock, inflight, okDeletes>>
     ELSE \E out \in Outcomes :
          LET sql == "CALL UpdateCourierStatus(?, ?, ?)"
              args == <<id, body.new_status, body.changed_by_admin_email>>
              hist == HistoryRows(id, body.new_status, body.changed_by_admin_email)
              audit == AuditRows(id, body.new_status, body.changed_by_admin_email)
          IN
          IF out = "ok"
          THEN /\ hist # {} => nextHistoryId <= MaxHistory
               /\ Couriers' = UpdateCourierStatus(id, body.new_status)
               /\ Delivery_History' = Delivery_History \cup hist
               /\ Courier_Audit' = Courier_Audit \cup audit
               /\ nextHistoryId' = IF hist # {} THEN nextHistoryId + 1 ELSE nextHistoryId
               /\ clock' = IF hist # {} THEN clock + 1 ELSE clock
               /\ Respond(req, <<Call(sql, args, out, << >>)>>, 200,
                    [success |-> TRUE,
                     message |-> "Courier status updated successfully using stored procedure (Trigger fired automatically)",
                     courier_id |-> id, new_status |-> body.new_status])
               /\ UNCHANGED <<Users, Admins, nextCourierId, inflight, okDeletes>>
          ELSE /\ Catch(req, <<Call(sql, args, out, << >>)>>,
                        "Failed to update courier status", out)
               /\ UNCHANGED <<tables, clock, inflight, okDeletes>>

\* ------------------------------------------------------- GET /status/:id
\* rows.length === 0 || rows[0].status === null
\* (StatusNotFoundLengthOnly is the faulty variant without the null test)
StatusNotFoundLengthOnly(rows) == Len(rows) = 0
StatusNotFound(rows) == Len(rows) = 0 \/ rows[1].status = Null

GetStatus(id) ==
  LET req == [route |-> "GET /status/:id", id |-> id] IN
  /\ Receive
  /\ ReadOnly
  /\ UNCHANGED <<inflight, okDeletes>>
  /\ \E out \in Outcomes :
     LET sql == "SELECT GetCourierStatus(?) AS status" IN
     IF out = "ok"
     THEN \E rows \in GetCourierStatus(id) :
          IF StatusNotFound(rows)
          THEN Respond(req, <<Call(sql, <<id>>, out, rows)>>, 404,
                 [success |-> FALSE, message |-> "Courier not found"])
          ELSE Respond(req, <<Call(sql, <<id>>, out, rows)>>, 200,
                 [success |-> TRUE,
                  message |-> "Status retrieved using database function",
                  courier_id |-> id, status |-> rows[1].status])
     ELSE Catch(req, <<Call(sql, <<id>>, out, << >>)>>,
                "Failed to get courier status", out)

\* -------------------------------------------------------- GET /:id/logs
\* res.json(...) of the logs: the status code it is sent with
\* (LogsStatusNotFoundWhenEmpty is the faulty variant that answers 404 for no rows)
LogsStatusNotFoundWhenEmpty(deliveryHistory, auditLogs) ==
  IF Len(deliveryHistory) = 0 /\ Len(auditLogs) = 0 THEN 404 ELSE 200
LogsStatus(deliveryHistory, auditLogs) == 200

\* first query: Delivery_History
GetLogsHistory(id) ==
  LET req == [route |-> "GET /:id/logs", id |-> id] IN
  /\ Receive
  /\ BagCardinality(inflight) < MaxInFlight
  /\ ReadOnly
  /\ UNCHANGED okDeletes
  /\ \E out \in Outcomes :
     LET sql == "SELECT ... FROM Delivery_History WHERE courier_id = ? ORDER BY changed_at DESC" IN
     IF out = "ok"
     THEN \E deliveryHistory \in
               OrderByDesc({r \in Delivery_History : r.courier_id = id}, "changed_at") :
          /\ inflight' = inflight (+) SetToBag({
                [req |-> req, calls |-> <<Call(sql, <<id>>, out, deliveryHistory)>>]})
          /\ UNCHANGED <<last, before>>
     ELSE /\ Catch(req, <<Call(sql, <<id>>, out, << >>)>>, "Failed to fetch logs", out)
          /\ UNCHANGED inflight

\* second query: Courier_Audit, then the answer
GetLogsAudit(f) ==
  /\ BagIn(f, inflight) /\ f.req.route = "GET /:id/logs"
  /\ inflight' = inflight (-) SetToBag({f})
  /\ ReadOnly
  /\ UNCHANGED <<okDeletes, received>>
  /\ LET req == f.req
         id == req.id
         first == f.calls
         deliveryHistory == first[1].rows
         sql == "SELECT ... FROM Courier_Audit WHERE courier_id = ? ORDER BY changed_at DESC"
     IN
     \E out \in Outcomes :
     IF out = "ok"
     THEN \E auditLogs \in
               OrderByDesc({r \in Courier_Audit : r.courier_id = id}, "changed_at") :
          Respond(req, Append(first, Call(sql, <<id>>, out, auditLogs)),
            LogsStatus(deliveryHistory, auditLogs),
            [success |-> TRUE,
             message |-> "Logs retrieved successfully (Proof of Trigger execution)",
             courier_id |-> id,
             delivery_history |-> deliveryHistory,
             audit_logs |-> auditLogs,
             trigger_info |-> "These records were automatically created by the after_courier_status_update trigger"])
     ELSE Catch(req, Append(first, Call(sql, <<id>>, out, << >>)),
                "Failed to fetch logs", out)

\* ------------------------------------------------------------ DELETE /:id
\* courier.length === 0
\* (CourierNotFoundNever is the faulty variant without the existence test)
CourierNotFoundNever(courier) == FALSE
CourierNotFound(courier) == Len(courier) = 0

\* deleted_courier: courier[0]
\* (DeletedCourierIdOnly is the faulty variant that drops the bill number)
DeletedCourierIdOnly(courier) == [courier_id |-> courier[1].courier_id]
DeletedCourier(courier) == courier[1]

\* first query: the existence check
DeleteSelect(id) ==
  LET req == [route |-> "DELETE /:id", id |-> id] IN
  /\ Receive
  /\ BagCardinality(inflight) < MaxInFlight
  /\ ReadOnly
  /\ UNCHANGED okDeletes
  /\ \E out \in Outcomes :
     LET sql == "SELECT courier_id, bill_number FROM Couriers WHERE courier_id = ?" IN
     IF out = "ok"
     THEN \E courier \in Perms({[courier_id |-> c.courier_id, bill_number |-> c.bill_number] :
                                  c \in {r \in Couriers : r.courier_id = id}}) :
          IF CourierNotFound(courier)
          THEN /\ Respond(req, <<Call(sql, <<id>>, out, courier)>>, 404,
                     [success |-> FALSE, message |-> "Courier not found"])
               /\ UNCHANGED inflight
          ELSE /\ inflight' = inflight (+) SetToBag({
                     [req |-> req, calls |-> <<Call(sql, <<id>>, out, courier)>>]})
               /\ UNCHANGED <<last, before>>
     ELSE /\ Catch(req, <<Call(sql, <<id>>, out, << >>)>>, "Failed to delete courier", out)
          /\ UNCHANGED inflight

\* second query: the DELETE, then the answer; courier[0].bill_number throws a
\* TypeError when courier is empty, and the catch block answers it
DeleteDelete(f) ==
  /\ BagIn(f, inflight) /\ f.req.route = "DELETE /:id"
  /\ inflight' = inflight (-) SetToBag({f})
  /\ UNCHANGED <<Users, Admins, nextCourierId, nextHistoryId, clock, received>>
  /\ LET req == f.req
         id == req.id
         first == f.calls
         courier == first[1].rows
         sql == "DELETE FROM Couriers WHERE courier_id = ?"
     IN
     \E out \in Outcomes :
     IF out = "ok"
     THEN /\ Couriers' = {c \in Couriers : c.courier_id # id}
          /\ Delivery_History' = Cascade(Delivery_History, id)
          /\ Courier_Audit' = Cascade(Courier_Audit, id)
          /\ IF Len(courier) = 0
             THEN /\ Catch(req, Append(first, Call(sql, <<id>>, out, << >>)),
                           "Failed to delete courier", "TypeError")
                  /\ UNCHANGED okDeletes
             ELSE /\ okDeletes' = [okDeletes EXCEPT ![id] = @ + 1]
                  /\ Respond(req, Append(first, Call(sql, <<id>>, out, << >>)), 200,
                       [success |-> TRUE,
                        message |-> <<"Courier #", id, " (", courier[1].bill_number,
                                      ") deleted successfully">>,
                        deleted_courier |-> DeletedCourier(courier)])
     ELSE /\ Catch(req, Append(first, Call(sql, <<id>>, out, << >>)),
                   "Failed to delete courier", out)
          /\ UNCHANGED <<Couriers, Delivery_History, Courier_Audit, okDeletes>>

\* ---------------------------------------------------------------- GET /
\* Couriers c LEFT JOIN Users u LEFT JOIN Admins a, over the table C
ListRows(C) ==
  {[courier_id |-> c.courier_id, customer_id |-> c.customer_id,
    managed_by_admin_id |-> c.managed_by_admin_id, bill_number |-> c.bill_number,
    pickup_address |-> c.pickup_address, delivery_address |-> c.delivery_address,
    status |-> c.status, created_at |-> c.created_at,
    customer_name |-> CustomerName(c.customer_id),
    customer_email |-> CustomerEmail(c.customer_id),
    admin_name |-> AdminName(c.managed_by_admin_id),
    admin_email |-> AdminEmail(c.managed_by_admin_id)] : c \in C}

\* a handler with one parameterless SELECT: sql is the statement, results the
\* row sequences it can return, fields the constant fields of the success
\* body, message the message of the catch block; the body carries a count
Query(route, sql, results, fields, message) ==
  LET req == [route |-> route] IN
  /\ Receive
  /\ ReadOnly
  /\ UNCHANGED <<inflight, okDeletes>>
  /\ \E out \in Outcomes :
     IF out = "ok"
     THEN \E rows \in results :
          Respond(req, <<Call(sql, << >>, out, rows)>>, 200,
                  fields @@ [count |-> Len(rows), data |-> rows])
     ELSE Catch(req, <<Call(sql, << >>, out, << >>)>>, message, out)

\* the same, for the handlers that send no count and whose catch block sends
\* no message
QueryBare(route, sql, results, fields) ==
  LET req == [route |-> route] IN
  /\ Receive
  /\ ReadOnly
  /\ UNCHANGED <<inflight, okDeletes>>
  /\ \E out \in Outcomes :
     IF out = "ok"
     THEN \E rows \in results :
          Respond(req, <<Call(sql, << >>, out, rows)>>, 200,
                  fields @@ [data |-> rows])
     ELSE CatchBare(req, <<Call(sql, << >>, out, << >>)>>, out)

GetAll ==
  Query("GET /",
        "SELECT ... FROM Couriers c LEFT JOIN Users u LEFT JOIN Admins a ORDER BY c.created_at DESC",
        OrderByDesc(ListRows(Couriers), "created_at"),
        [success |-> TRUE], "Failed to fetch couriers")

\* ------------------------------------------- GET /data/users, /data/admins
GetUsers ==
  QueryBare("GET /data/users", "SELECT user_id, name, email FROM Users ORDER BY name",
            OrderByAsc({[user_id |-> u.user_id, name |-> u.name, email |-> u.email] :
                          u \in Users}, "name"),
            [success |-> TRUE])

GetAdmins ==
  QueryBare("GET /data/admins", "SELECT admin_id, name, email FROM Admins ORDER BY name",
            OrderByAsc(Admins, "name"), [success |-> TRUE])

\* ------------------------------------------------------ reports: GET /join
\* Couriers T1 JOIN Users T2 LEFT JOIN Admins T3
JoinRows ==
  {[courier_id |-> c.courier_id, bill_number |-> c.bill_number, status |-> c.status,
    pickup_address |-> c.pickup_address, delivery_address |-> c.delivery_address,
    created_at |-> c.created_at,
    customer_name |-> CustomerName(c.customer_id),
    customer_email |-> CustomerEmail(c.customer_id),
    admin_name |-> AdminName(c.managed_by_admin_id),
    admin_email |-> AdminEmail(c.managed_by_admin_id)] :
     c \in {r \in Couriers : \E u \in Users : u.user_id = r.customer_id}}

ReportJoin ==
  Query("GET /join",
        "SELECT ... FROM Couriers T1 JOIN Users T2 LEFT JOIN Admins T3 ORDER BY T1.created_at DESC",
        OrderByDesc(JoinRows, "created_at"),
        [success |-> TRUE, message |-> "JOIN Query executed successfully",
         query_type |-> "JOIN (Couriers + Users + Admins)"],
        "Failed to execute JOIN query")

\* ---------------------------------------------------- reports: GET /nested
NestedRows ==
  {u \in Users : u.user_id \in {c.customer_id : c \in {r \in Couriers : r.status = Delivered}}}

ReportNested ==
  Query("GET /nested",
        "SELECT ... FROM Users WHERE user_id IN (SELECT customer_id FROM Couriers WHERE status = 'Delivered') ORDER BY name",
        OrderByAsc(NestedRows, "name"),
        [success |-> TRUE, message |-> "NESTED Query executed successfully",
         query_type |-> "NESTED (Users with Delivered couriers)",
         description |-> "Finds all customers who have at least one delivered courier"],
        "Failed to execute NESTED query")

\* ------------------------------------------------- reports: GET /aggregate
Min(S) == CHOOSE x \in S : \A y \in S : x <= y
Max(S) == CHOOSE x \in S : \A y \in S : x >= y

AggregateRows ==
  {LET G == {c \in Couriers : c.status = s} IN
   [status |-> s, count |-> Cardinality(G),
    unique_customers |-> Cardinality({c.customer_id : c \in G}),
    earliest_order |-> Min({c.created_at : c \in G}),
    latest_order |-> Max({c.created_at : c \in G})] :
     s \in {c.status : c \in Couriers}}

ReportAggregate ==
  Query("GET /aggregate",
        "SELECT status, COUNT(*), ... FROM Couriers GROUP BY status ORDER BY count DESC",
        OrderByDesc(AggregateRows, "count"),
        [success |-> TRUE, message |-> "AGGREGATE Query executed successfully",
         query_type |-> "AGGREGATE (GROUP BY status with COUNT)",
         description |-> "Groups couriers by status and counts orders"],
        "Failed to execute AGGREGATE query")

\* ----------------------------------------- reports: GET /admin-performance
AdminPerformanceRows ==
  {LET G == {c \in Couriers : c.managed_by_admin_id = a.admin_id} IN
   [admin_id |-> a.admin_id, admin_name |-> a.name, admin_email |-> a.email,
    total_couriers_managed |-> Cardinality(G),
    delivered_count |-> Cardinality({c \in G : c.status = Delivered}),
    in_transit_count |-> Cardinality({c \in G : c.status = InTransit}),
    pending_count |-> Cardinality({c \in G : c.status = Pending})] : a \in Admins}

ReportAdminPerformance ==
  QueryBare("GET /admin-performance",
            "SELECT ... FROM Admins a LEFT JOIN Couriers c GROUP BY a.admin_id, a.name, a.email ORDER BY total_couriers_managed DESC",
            OrderByDesc(AdminPerformanceRows, "total_couriers_managed"),
            [success |-> TRUE, message |-> "Admin Performance Report"])

\* ----------------------------------------- reports: GET /customer-activity
\* HAVING total_orders > 0
\* (HavingAny is the faulty variant that keeps the users without orders)
HavingAny(total_orders) == total_orders >= 0
Having(total_orders) == total_orders > 0

CustomerActivityRows ==
  LET grouped ==
        {LET G == {c \in Couriers : c.customer_id = u.user_id} IN
         [user_id |-> u.user_id, customer_name |-> u.name, email |-> u.email,
          total_orders |-> Cardinality(G),
          order_statuses |-> {c.status : c \in G}] : u \in Users}
  IN {r \in grouped : Having(r.total_orders)}

ReportCustomerActivity ==
  QueryBare("GET /customer-activity",
            "SELECT ... FROM Users u LEFT JOIN Couriers c GROUP BY u.user_id, u.name, u.email HAVING total_orders > 0 ORDER BY total_orders DESC",
            OrderByDesc(CustomerActivityRows, "total_orders"),
            [success |-> TRUE, message |-> "Customer Activity Report"])

\* ------------------------------------------------------------ the requests
\* values of a required field: absent, '', the number 0, or one of the tokens
Field(tokens) == Falsy \cup tokens

\* every body of POST /add
AddBodies ==
  [customer_id : Field(UserIds), admin_id : Field({1}),
   bill_number : Field(1..NumBills), pickup_address : Field({1}),
   delivery_address : Field({1})]

\* every body of PUT /update-status/:id
UpdateBodies ==
  [new_status : Field(Statuses), changed_by_admin_email : Field({1})]

\* the bodies with a token in every field, and the empty body {}
Complete(bodies) ==
  {b \in bodies : \A f \in DOMAIN b : b[f] > 0 \/ \A g \in DOMAIN b : b[g] = Undefined}

InFlight == BagToSet(inflight)

Couriers_js(addBodies, updateBodies) ==
  \/ \E body \in addBodies : PostAdd(body)
  \/ \E id \in PathIds, body \in updateBodies : PutUpdateStatus(id, body)
  \/ \E id \in PathIds : GetStatus(id)
  \/ \E id \in PathIds : GetLogsHistory(id)
  \/ \E f \in InFlight : GetLogsAudit(f)
  \/ GetAll
  \/ GetUsers
  \/ GetAdmins
  \/ \E id \in PathIds : DeleteSelect(id)
  \/ \E f \in InFlight : DeleteDelete(f)

Reports_js ==
  \/ ReportJoin
  \/ ReportNested
  \/ ReportAggregate
  \/ ReportAdminPerformance
  \/ ReportCustomerActivity

Next == Couriers_js(Complete(AddBodies), Complete(UpdateBodies)) \/ Reports_js

Spec == Init /\ [][Next]_vars

\* ---------------------------------------------- validation, on every body
NextValidation ==
  /\ received < MaxApplied
  /\ \/ \E body \in AddBodies : PostAdd(body)
     \/ \E id \in PathIds, body \in UpdateBodies : PutUpdateStatus(id, body)

SpecValidation == Init /\ [][NextValidation]_vars

\* ------------------------- the customer report, on every table content
\* the rows an order with the identifier i can be
OrderRows(i) ==
  [courier_id : {i}, customer_id : UserIds, managed_by_admin_id : {1},
   bill_number : {1}, pickup_address : {1}, delivery_address : {1},
   status : Statuses, created_at : {i - 1}]

\* every content of the table Couriers with identifiers in 1..MaxCouriers
OrderTables ==
  UNION {{{f[i] : i \in D} : f \in {g \in [D -> UNION {OrderRows(i) : i \in D}] :
                                      \A i \in D : g[i].courier_id = i}} :
         D \in SUBSET (1..MaxCouriers)}

InitReports ==
  /\ Users \in {{UserRow(u) : u \in U} : U \in SUBSET UserIds}
  /\ Admins = {AdminRow(a) : a \in AdminIds}
  /\ Couriers \in OrderTables
  /\ Delivery_History = {}
  /\ Courier_Audit = {}
  /\ nextCourierId = MaxCouriers + 1
  /\ nextHistoryId = 1
  /\ clock = MaxCouriers
  /\ inflight = EmptyBag
  /\ last = NoRequest
  /\ before = Snapshot
  /\ okDeletes = [i \in PathIds |-> 0]
  /\ received = 0

NextReports ==
  /\ received < MaxApplied
  /\ ReportCustomerActivity

SpecReports == InitReports /\ [][NextReports]_vars

\* ================================================================ claims
Answered(route) == last.route = route
Failed(call) == call.result # "ok"
AllOk(calls) == \A i \in 1..Len(calls) : calls[i].result = "ok"
Validated == {"POST /add", "PUT /update-status/:id"}
Routine(route) ==
  IF route = "POST /add" THEN "CALL AddCourierOrder(?, ?, ?, ?, ?)"
  ELSE "CALL UpdateCourierStatus(?, ?, ?)"

\* C1 (as claimed): on create and update-status, a missing or empty required
\* input is answered 400 with success=false and no database call, and a request
\* whose required inputs are all present and non-empty issues exactly one
\* database call, the stored routine.
C1_PresenceCheck ==
  last.route \in Validated =>
    LET body == last.req.body IN
    /\ (\E f \in DOMAIN body : body[f] \in MissingOrEmpty) =>
         /\ last.status = 400
         /\ last.json.success = FALSE
         /\ Len(last.calls) = 0
    /\ (\A f \in DOMAIN body : body[f] \notin MissingOrEmpty) =>
         /\ Len(last.calls) = 1
         /\ last.calls[1].sql = Routine(last.route)

\* C1 (amended): on create and update-status, a required input that is missing,
\* empty or the number 0 is answered 400 with success=false and no database
\* call, and a request whose required inputs are all non-empty and non-zero
\* issues exactly one database call, the stored routine.
C1_TruthinessCheck ==
  last.route \in Validated =>
    LET body == last.req.body IN
    /\ (\E f \in DOMAIN body : body[f] \in Falsy) =>
         /\ last.status = 400
         /\ last.json.success = FALSE
         /\ Len(last.calls) = 0
    /\ (\A f \in DOMAIN body : body[f] \notin Falsy) =>
         /\ Len(last.calls) = 1
         /\ last.calls[1].sql = Routine(last.route)

\* a create request with the number 0 in one field, answered 400 with no call
C1_Witness ==
  /\ Answered("POST /add")
  /\ last.req.body.customer_id = 0
  /\ \A f \in DOMAIN last.req.body \ {"customer_id"} : last.req.body[f] > 0
  /\ last.status = 400
  /\ Len(last.calls) = 0

\* C2: a delete request whose existence SELECT finds no row is answered 404,
\* its only database call is that SELECT, and the table Couriers is as it was.
C2_DeleteNotFound ==
  (/\ Answered("DELETE /:id")
   /\ last.calls[1].result = "ok"
   /\ last.calls[1].rows = << >>) =>
    /\ last.status = 404
    /\ last.json.success = FALSE
    /\ Len(last.calls) = 1
    /\ last.calls[1].sql = "SELECT courier_id, bill_number FROM Couriers WHERE courier_id = ?"
    /\ Couriers = before.Couriers

\* a delete of an identifier that was deleted before, answered 404
C2_Witness ==
  /\ Answered("DELETE /:id")
  /\ last.status = 404
  /\ okDeletes[last.req.id] = 1
  /\ Couriers = before.Couriers
  /\ \A c \in Couriers : c.courier_id # last.req.id

\* C3: a delete request that found the row and whose DELETE succeeded is
\* answered with success and with exactly the identifier and bill number it
\* read before the deletion, and a status read made after that answer, whose
\* database call succeeds, is answered 404.
C3_DeleteThenStatus ==
  /\ (/\ Answered("DELETE /:id")
      /\ Len(last.calls) = 2
      /\ AllOk(last.calls)) =>
       /\ last.status = 200
       /\ last.json.success = TRUE
       /\ last.json.deleted_courier = last.calls[1].rows[1]
       /\ DOMAIN last.json.deleted_courier = {"courier_id", "bill_number"}
       /\ last.json.deleted_courier.courier_id = last.req.id
       /\ \A c \in before.Couriers :
            c.courier_id = last.req.id =>
              c.bill_number = last.json.deleted_courier.bill_number
  /\ (/\ Answered("GET /status/:id")
      /\ okDeletes[last.req.id] > 0
      /\ AllOk(last.calls)) =>
       last.status = 404

\* a status read of a deleted identifier, answered 404
C3_Witness ==
  /\ Answered("GET /status/:id")
  /\ okDeletes[last.req.id] > 0
  /\ AllOk(last.calls)
  /\ last.status = 404

\* C4: a status read whose database call succeeds is answered 404 with
\* success=false when the call returns no row or a row with a null status, and
\* 200 with that status otherwise; it is never answered 500.
C4_StatusRead ==
  (Answered("GET /status/:id") /\ AllOk(last.calls)) =>
    LET rows == last.calls[1].rows IN
    IF Len(rows) = 0 \/ rows[1].status = Null
    THEN last.status = 404 /\ last.json.success = FALSE
    ELSE /\ last.status = 200
         /\ last.json.success = TRUE
         /\ last.json.status = rows[1].status

\* a status read that got one row with a null status
C4_Witness ==
  /\ Answered("GET /status/:id")
  /\ AllOk(last.calls)
  /\ Len(last.calls[1].rows) = 1
  /\ last.calls[1].rows[1].status = Null
  /\ last.status = 404

\* C5: in every handler a failed database call is the last call of its request,
\* no statement is issued twice, and the request is answered 500 with
\* success=false and the error's message unchanged; a request still in flight
\* has had no failure.
C5_FailureIsTerminal ==
  /\ \A i \in 1..Len(last.calls) :
       Failed(last.calls[i]) =>
         /\ i = Len(last.calls)
         /\ last.status = 500
         /\ last.json.success = FALSE
         /\ last.json.error = last.calls[i].result
         /\ \A j \in 1..Len(last.calls) : j # i => last.calls[j].sql # last.calls[i].sql
  /\ \A f \in InFlight : AllOk(f.calls)

\* a logs read whose history query failed: the audit query was not issued
C5_Witness ==
  /\ Answered("GET /:id/logs")
  /\ Len(last.calls) = 1
  /\ Failed(last.calls[1])
  /\ last.status = 500
  /\ last.json.error = "ER_SIGNAL_EXCEPTION"

\* the statements the handlers issue
Statements ==
  {"CALL AddCourierOrder(?, ?, ?, ?, ?)",
   "CALL UpdateCourierStatus(?, ?, ?)",
   "SELECT GetCourierStatus(?) AS status",
   "SELECT ... FROM Delivery_History WHERE courier_id = ? ORDER BY changed_at DESC",
   "SELECT ... FROM Courier_Audit WHERE courier_id = ? ORDER BY changed_at DESC",
   "SELECT ... FROM Couriers c LEFT JOIN Users u LEFT JOIN Admins a ORDER BY c.created_at DESC",
   "SELECT user_id, name, email FROM Users ORDER BY name",
   "SELECT admin_id, name, email FROM Admins ORDER BY name",
   "SELECT courier_id, bill_number FROM Couriers WHERE courier_id = ?",
   "DELETE FROM Couriers WHERE courier_id = ?",
   "SELECT ... FROM Couriers T1 JOIN Users T2 LEFT JOIN Admins T3 ORDER BY T1.created_at DESC",
   "SELECT ... FROM Users WHERE user_id IN (SELECT customer_id FROM Couriers WHERE status = 'Delivered') ORDER BY name",
   "SELECT status, COUNT(*), ... FROM Couriers GROUP BY status ORDER BY count DESC",
   "SELECT ... FROM Admins a LEFT JOIN Couriers c GROUP BY a.admin_id, a.name, a.email ORDER BY total_couriers_managed DESC",
   "SELECT ... FROM Users u LEFT JOIN Couriers c GROUP BY u.user_id, u.name, u.email HAVING total_orders > 0 ORDER BY total_orders DESC"}

\* C6: the handlers issue no statement but the fifteen above, none of which
\* inserts into or updates a log table; the step that answers a request
\* changes the log tables only by adding rows under a successful
\* CALL UpdateCourierStatus or by removing the rows of the deleted order under
\* a successful DELETE FROM Couriers; any other request leaves both unchanged.
C6_LogTablesWriters ==
  /\ \A i \in 1..Len(last.calls) : last.calls[i].sql \in Statements
  /\ \A f \in InFlight : \A i \in 1..Len(f.calls) : f.calls[i].sql \in Statements
  /\ (Delivery_History # before.Delivery_History \/ Courier_Audit # before.Courier_Audit) =>
       \/ /\ Answered("PUT /update-status/:id")
          /\ last.calls[1].sql = "CALL UpdateCourierStatus(?, ?, ?)"
          /\ last.calls[1].result = "ok"
          /\ before.Delivery_History \subseteq Delivery_History
          /\ before.Courier_Audit \subseteq Courier_Audit
       \/ /\ Answered("DELETE /:id")
          /\ Len(last.calls) = 2
          /\ last.calls[2].sql = "DELETE FROM Couriers WHERE courier_id = ?"
          /\ last.calls[2].result = "ok"
          /\ Delivery_History = {r \in before.Delivery_History : r.courier_id # last.req.id}
          /\ Courier_Audit = {r \in before.Courier_Audit : r.courier_id # last.req.id}

\* a status update that made the trigger write one row into each log table
C6_Witness ==
  /\ Answered("PUT /update-status/:id")
  /\ last.status = 200
  /\ Cardinality(Delivery_History) = Cardinality(before.Delivery_History) + 1
  /\ Cardinality(Courier_Audit) = Cardinality(before.Courier_Audit) + 1

\* the list C0 plus exactly one entry, which carries the fields of body
OneNewEntry(C0, body, data) ==
  LET old == {c.courier_id : c \in C0}
      new == {i \in 1..Len(data) : data[i].courier_id \notin old}
  IN /\ Len(data) = Cardinality(C0) + 1
     /\ {data[i].courier_id : i \in 1..Len(data)} \ old # {}
     /\ Cardinality(new) = 1
     /\ \A c \in C0 : \E i \in 1..Len(data) :
          /\ data[i].courier_id = c.courier_id
          /\ data[i].bill_number = c.bill_number
     /\ \A i \in new :
          /\ data[i].customer_id = body.customer_id
          /\ data[i].managed_by_admin_id = body.admin_id
          /\ data[i].bill_number = body.bill_number
          /\ data[i].pickup_address = body.pickup_address
          /\ data[i].delivery_address = body.delivery_address

\* C7: when a create request has been answered 201 and the next request
\* answered is a list of all orders answered 200, the list holds the orders
\* listed before the create and exactly one more, whose customer, admin, bill
\* number and two addresses are the submitted ones.
C7_CreateThenList ==
  [][(/\ Answered("POST /add")
      /\ last.status = 201
      /\ received' = received + 1
      /\ last'.route = "GET /"
      /\ last'.status = 200) =>
        OneNewEntry(before.Couriers, last.req.body, last'.json.data)]_vars

\* three requests were received: two creates and then a list, which shows the
\* two orders
C7_Witness ==
  /\ received = 3
  /\ Answered("GET /")
  /\ last.status = 200
  /\ Len(last.json.data) = 2
  /\ last.json.data[1].customer_id # last.json.data[2].customer_id

\* C8: a logs read is answered 200 or 500, never 404; when both queries
\* succeed and find no row, as for an identifier no order has, the answer is
\* 200 with success and two empty sequences.
C8_EmptyLogs ==
  Answered("GET /:id/logs") =>
    /\ last.status \in {200, 500}
    /\ last.status = 200 <=> AllOk(last.calls)
    /\ (/\ Len(last.calls) = 2
        /\ AllOk(last.calls)
        /\ last.calls[1].rows = << >>
        /\ {r \in before.Courier_Audit : r.courier_id = last.req.id} = {}) =>
         /\ last.status = 200
         /\ last.json.success = TRUE
         /\ last.json.delivery_history = << >>
         /\ last.json.audit_logs = << >>

\* a logs read of an identifier that no order has, answered with two empty lists
C8_Witness ==
  /\ Answered("GET /:id/logs")
  /\ last.status = 200
  /\ \A c \in Couriers : c.courier_id # last.req.id
  /\ last.json.delivery_history = << >>
  /\ last.json.audit_logs = << >>

\* the orders of the user u
OrdersOf(u) == {c \in Couriers : c.customer_id = u}

\* C9: the customer-activity report has one row for each user that is the
\* customer of at least one order, none for a user without orders, and each
\* row's total is the number of that user's orders.
C9_CustomerActivity ==
  (Answered("GET /customer-activity") /\ last.status = 200) =>
    LET data == last.json.data
        active == {u \in Users : OrdersOf(u.user_id) # {}}
    IN /\ Len(data) = Cardinality(active)
       /\ {data[i].user_id : i \in 1..Len(data)} = {u.user_id : u \in active}
       /\ \A i \in 1..Len(data) :
            data[i].total_orders = Cardinality(OrdersOf(data[i].user_id))

\* a report over a Users table with a user that has two orders and one that
\* has none
C9_Witness ==
  /\ Answered("GET /customer-activity")
  /\ last.status = 200
  /\ Len(last.json.data) = 1
  /\ last.json.data[1].total_orders = 2
  /\ \E u \in Users : OrdersOf(u.user_id) = {}

\* C10: of the delete requests for one identifier, at most one is answered with
\* the success that names the deleted record.
C10_OneDeleteSucceeds ==
  \A id \in PathIds : okDeletes[id] <= 1
====
